---- MODULE Spec2Model ----
(***************************************************************************)
(* Model of h3/src/proto/stream.rs: the StreamType and StreamId value      *)
(* types, their varint wire codec and their text rendering.                *)
(*                                                                         *)
(* A u64 is modelled as its eight bytes, most significant first, because   *)
(* the values of interest (2^62, 2^64-1) do not fit TLC's integers and     *)
(* because the wire format is defined on bytes.  All arithmetic below is   *)
(* exact 64-bit arithmetic on that representation.                         *)
(***************************************************************************)
EXTENDS Integers, Sequences, FiniteSets, TLC

VARIABLES
    id,       \* the StreamId last constructed: its raw u64
    ty,       \* the StreamType currently held: its raw u64
    wire,     \* bytes written by encode, not yet available to the reader
    buf,      \* the reader's Buf: the bytes that remain to be read
    pending,  \* history: values of the whole frames written and not yet decoded
    out       \* what the last operation returned

vars == <<id, ty, wire, buf, pending, out>>

(***************************************************************************)
(* Bounds of the model.                                                    *)
(***************************************************************************)
\* raw ids 0..MaxLow are enumerated one by one
MaxLow == 7
\* frames that may be written before the reader has decoded them (SpecStream)
MaxFrames == 2

(***************************************************************************)
(* u64 as eight bytes, big-endian.                                         *)
(***************************************************************************)
Bytes8 == 1..8

Small(n) == [i \in Bytes8 |-> IF i = 8 THEN n ELSE 0]

Zero64 == Small(0)

\* a < b on u64
U64Lt(a, b) ==
    \E i \in Bytes8 : /\ a[i] < b[i]
                      /\ \A j \in 1..(i - 1) : a[j] = b[j]

\* v >> 2
Shr2(v) ==
    [i \in Bytes8 |-> (v[i] \div 4) + (IF i > 1 THEN (v[i - 1] % 4) * 64 ELSE 0)]

\* (v << 2) wrapped to 64 bits
Shl2(v) ==
    [i \in Bytes8 |-> (v[i] % 64) * 4 + (IF i < 8 THEN v[i + 1] \div 64 ELSE 0)]

\* v | m for a mask m < 4 when the two low bits of v are clear
OrLow(v, m) == [v EXCEPT ![8] = v[8] + m]

\* v & m for a mask m in {1, 2, 3}: the result as a small integer
AndLow(v, m) ==
    CASE m = 1 -> v[8] % 2
      [] m = 2 -> ((v[8] \div 2) % 2) * 2
      [] m = 3 -> v[8] % 4

\* long division of a u64 by ten, most significant byte first
RECURSIVE DivStep(_, _, _, _)
DivStep(v, i, rem, acc) ==
    IF i > 8 THEN [q |-> acc, r |-> rem]
    ELSE LET cur == rem * 256 + v[i]
         IN  DivStep(v, i + 1, cur % 10, Append(acc, cur \div 10))

DivMod10(v) == DivStep(v, 1, 0, <<>>)

\* v * 10 + d wrapped to 64 bits, least significant byte first
MulAdd10(v, d) ==
    LET c8 == v[8] * 10 + d
        c7 == v[7] * 10 + c8 \div 256
        c6 == v[6] * 10 + c7 \div 256
        c5 == v[5] * 10 + c6 \div 256
        c4 == v[4] * 10 + c5 \div 256
        c3 == v[3] * 10 + c4 \div 256
        c2 == v[2] * 10 + c3 \div 256
        c1 == v[1] * 10 + c2 \div 256
    IN  <<c1 % 256, c2 % 256, c3 % 256, c4 % 256,
          c5 % 256, c6 % 256, c7 % 256, c8 % 256>>

\* the u64 a sequence of decimal digits denotes
RECURSIVE FromDigitsUpTo(_, _)
FromDigitsUpTo(digits, n) ==
    IF n = 0 THEN Zero64 ELSE MulAdd10(FromDigitsUpTo(digits, n - 1), digits[n])

FromDigits(numeral) == FromDigitsUpTo(numeral, Len(numeral))

(***************************************************************************)
(* Decimal rendering of a u64, as the "{}" of write! renders it.           *)
(***************************************************************************)
RECURSIVE Digits(_)
Digits(v) ==
    IF v = Zero64 THEN <<>>
    ELSE LET d == DivMod10(v) IN Append(Digits(d.q), d.r)

Decimal(v) == IF v = Zero64 THEN <<0>> ELSE Digits(v)

DigitChar(d) ==
    CASE d = 0 -> "0" [] d = 1 -> "1" [] d = 2 -> "2" [] d = 3 -> "3"
      [] d = 4 -> "4" [] d = 5 -> "5" [] d = 6 -> "6" [] d = 7 -> "7"
      [] d = 8 -> "8" [] d = 9 -> "9"

RECURSIVE DigitString(_)
DigitString(ds) ==
    IF ds = <<>> THEN "" ELSE DigitChar(Head(ds)) \o DigitString(Tail(ds))

u64_fmt(v) == DigitString(Decimal(v))

(***************************************************************************)
(* The raw values the model draws its inputs from: the small ids, and the  *)
(* values around each size boundary of the varint format and of u64.       *)
(***************************************************************************)
\* 0x40 at byte p, zeros after it, plus d: 2^6 + d, 2^14 + d, 2^30 + d, 2^62 + d
At(p, d) ==
    [i \in Bytes8 |-> IF i < p THEN 0
                      ELSE IF i = p THEN (IF p = 8 THEN 64 + d ELSE 64)
                      ELSE IF i = 8 THEN d ELSE 0]

\* 0x3F at byte p, 0xFF after it: 2^6 - 1, 2^14 - 1, 2^30 - 1, 2^62 - 1
Below(p) ==
    [i \in Bytes8 |-> IF i < p THEN 0 ELSE IF i = p THEN 63 ELSE 255]

\* 2^64 - 1 - d
Top(d) == [i \in Bytes8 |-> IF i = 8 THEN 255 - d ELSE 255]

Boundaries == {8, 7, 5, 1}

U64Samples ==
    {Small(n) : n \in 0..MaxLow} \cup {Small(42)}
    \cup {Below(p) : p \in Boundaries}
    \cup {At(p, d) : p \in Boundaries, d \in 0..2}
    \cup {Top(d) : d \in 0..3}

(***************************************************************************)
(* StreamId                                                                *)
(***************************************************************************)
From(v) == v

index(self) == Shr2(self)

initiator_of_bit1(self) == IF AndLow(self, 2) = 0 THEN "Client" ELSE "Server"
initiator(self) == IF AndLow(self, 1) = 0 THEN "Client" ELSE "Server"

dir_swapped(self) == IF AndLow(self, 2) = 0 THEN "Uni" ELSE "Bi"
dir(self) == IF AndLow(self, 2) = 0 THEN "Bi" ELSE "Uni"

is_request(self) == dir(self) = "Bi" /\ initiator(self) = "Client"

is_push_any_uni(self) == dir(self) = "Uni"
is_push(self) == dir(self) = "Uni" /\ initiator(self) = "Server"

\* the derived PartialOrd/Ord of the one-field tuple struct: a < b
StreamId_lt_by_index(a, b) == U64Lt(index(a), index(b))
StreamId_lt(a, b) == U64Lt(a, b)

StreamId_fmt(self) ==
    LET i == CASE initiator(self) = "Client" -> "client"
               [] initiator(self) = "Server" -> "server"
        d == CASE dir(self) = "Uni" -> "uni"
               [] dir(self) = "Bi" -> "bi"
    IN  i \o " " \o d \o "directional stream " \o u64_fmt(index(self))

\* discriminants of the enums
SideValue(s) == CASE s = "Client" -> 0 [] s = "Server" -> 1
DirValue(d) == CASE d = "Bi" -> 0 [] d = "Uni" -> 1

(***************************************************************************)
(* What an operation returned.                                             *)
(***************************************************************************)
\* a whole frame on the wire: the value it carries and who wrote it
Frame(v, by) == [val |-> v, by |-> by]

NoFrame == Frame(Zero64, "none")

\* op: the operation; res: how it ended; val: the value it returned or was given;
\* text: what it rendered; of: the frame a read consumed
Out(op, res, val, text) ==
    [op |-> op, res |-> res, val |-> val, text |-> text, of |-> NoFrame]

NoOut == Out("none", "", Zero64, "")

(***************************************************************************)
(* The varint wire format (VarInt, BufExt::get_var, BufMutExt::write_var). *)
(* A two-bit length prefix in the first byte selects 1, 2, 4 or 8 bytes;   *)
(* the remaining 6, 14, 30 or 62 bits hold the value, big-endian.          *)
(***************************************************************************)
\* bytes i..8 of v as a sequence
LowBytes(v, i) == [k \in 1..(9 - i) |-> v[k + i - 1]]

\* the u64 whose low bytes are bs
ZeroExtend(bs) ==
    [i \in Bytes8 |-> IF i <= 8 - Len(bs) THEN 0 ELSE bs[i - (8 - Len(bs))]]

\* VarInt::from_u64: fails exactly when the value exceeds 2^62 - 1
from_u64(x) == [ok |-> x[1] < 64, val |-> x]

\* the shortest encoding that holds v
VarIntSize(v) ==
    IF (\A i \in 1..7 : v[i] = 0) /\ v[8] < 64 THEN 1
    ELSE IF (\A i \in 1..6 : v[i] = 0) /\ v[7] < 64 THEN 2
    ELSE IF (\A i \in 1..4 : v[i] = 0) /\ v[5] < 64 THEN 4
    ELSE 8

\* VarInt::encode of a value below 2^62: the bytes appended
VarIntBytes(v) ==
    LET n == VarIntSize(v)
        tag == CASE n = 1 -> 0 [] n = 2 -> 1 [] n = 4 -> 2 [] n = 8 -> 3
        low == LowBytes(v, 9 - n)
    IN  [low EXCEPT ![1] = tag * 64 + low[1]]

\* the number of bytes the prefix of a first byte demands
PrefixLen(b) == CASE b \div 64 = 0 -> 1 [] b \div 64 = 1 -> 2
                  [] b \div 64 = 2 -> 4 [] b \div 64 = 3 -> 8

\* BufExt::get_var: the value and the rest of the buffer, or UnexpectedEnd with
\* the buffer as it was
get_var(b) ==
    IF b = <<>> \/ Len(b) < PrefixLen(b[1])
    THEN [ok |-> FALSE, val |-> Zero64, rest |-> b]
    ELSE LET n == PrefixLen(b[1])
             body == [k \in 1..n |-> IF k = 1 THEN b[1] % 64 ELSE b[k]]
         IN  [ok |-> TRUE, val |-> ZeroExtend(body), rest |-> SubSeq(b, n + 1, Len(b))]

\* BufMutExt::write_var: appends the encoding; a value the format cannot hold
\* is a failed conversion, which leaves the buffer alone
write_var(x, w) ==
    IF from_u64(x).ok THEN [ok |-> TRUE, buf |-> w \o VarIntBytes(x)]
    ELSE [ok |-> FALSE, buf |-> w]

(***************************************************************************)
(* StreamType                                                              *)
(***************************************************************************)
CONTROL == Small(0)
PUSH == Small(1)
ENCODER == Small(2)
DECODER == Small(3)

StreamTypeConstants == {CONTROL, PUSH, ENCODER, DECODER}

\* a decode that reads the first byte before it knows the rest is there
StreamType_decode_eager(b) ==
    LET r == get_var(b)
    IN  IF r.ok THEN [ok |-> TRUE, val |-> r.val, rest |-> r.rest]
        ELSE [ok |-> FALSE, val |-> Zero64, rest |-> IF b = <<>> THEN b ELSE Tail(b)]
\* a decode that wraps the first byte as it stands, prefix bits included
StreamType_decode_raw(b) ==
    LET r == get_var(b)
    IN  IF r.ok
        THEN [ok |-> TRUE, val |-> ZeroExtend(SubSeq(b, 1, PrefixLen(b[1]))),
              rest |-> r.rest]
        ELSE [ok |-> FALSE, val |-> Zero64, rest |-> r.rest]
\* Ok(StreamType(buf.get_var()?))
StreamType_decode(b) ==
    LET r == get_var(b)
    IN  IF r.ok THEN [ok |-> TRUE, val |-> r.val, rest |-> r.rest]
        ELSE [ok |-> FALSE, val |-> Zero64, rest |-> r.rest]

\* an encode that starts the buffer afresh instead of appending to it
StreamType_encode_clobber(self, w) == write_var(self, <<>>)
\* buf.write_var(self.0)
StreamType_encode(self, w) == write_var(self, w)

StreamType_fmt_push_named(self) ==
    CASE self = CONTROL -> "Control"
      [] self = PUSH -> "Push"
      [] self = ENCODER -> "Encoder"
      [] self = DECODER -> "Decoder"
      [] OTHER -> "StreamType(" \o u64_fmt(self) \o ")"
StreamType_fmt(self) ==
    CASE self = CONTROL -> "Control"
      [] self = ENCODER -> "Encoder"
      [] self = DECODER -> "Decoder"
      [] OTHER -> "StreamType(" \o u64_fmt(self) \o ")"

\* VarInt::from_u64(self.0).unwrap().encode(buf): ok is FALSE when unwrap panics
StreamId_encode(self, w) ==
    LET r == from_u64(self)
    IN  IF r.ok THEN [ok |-> TRUE, buf |-> w \o VarIntBytes(r.val)]
        ELSE [ok |-> FALSE, buf |-> w]

(***************************************************************************)
(* SpecId: the pure queries of StreamId, applied to every sampled raw id.  *)
(***************************************************************************)
InitId ==
    /\ id \in U64Samples
    /\ ty = Zero64
    /\ wire = <<>>
    /\ buf = <<>>
    /\ pending = <<>>
    /\ out = NoOut

QueryIndex ==
    /\ out' = Out("index", "", index(id), "")
    /\ UNCHANGED <<id, ty, wire, buf, pending>>

QueryRequest ==
    /\ out' = Out("is_request", IF is_request(id) THEN "true" ELSE "false", Zero64, "")
    /\ UNCHANGED <<id, ty, wire, buf, pending>>

QueryPush ==
    /\ out' = Out("is_push", IF is_push(id) THEN "true" ELSE "false", Zero64, "")
    /\ UNCHANGED <<id, ty, wire, buf, pending>>

Compare ==
    /\ \E b \in U64Samples :
          out' = Out("lt", IF StreamId_lt(id, From(b)) THEN "true" ELSE "false", b, "")
    /\ UNCHANGED <<id, ty, wire, buf, pending>>

DisplayId ==
    /\ out' = Out("fmt", "", Zero64, StreamId_fmt(id))
    /\ UNCHANGED <<id, ty, wire, buf, pending>>

\* every derived view of the id at once, as a caller routing a stream reads them
Classify ==
    /\ out' = Out("classify",
                  <<initiator(id), dir(id), is_request(id), is_push(id)>>,
                  index(id), "")
    /\ UNCHANGED <<id, ty, wire, buf, pending>>

NextId ==
    QueryIndex \/ QueryRequest \/ QueryPush \/ Compare \/ DisplayId \/ Classify

SpecId == InitId /\ [][NextId]_vars

(***************************************************************************)
(* The codec: a writer encodes into `wire`, the transport hands the bytes  *)
(* to the reader's `buf` one at a time, the reader decodes from `buf`.     *)
(***************************************************************************)
\* frames written by a peer: any prefix, shortest encoding or not
RawFrame(tag, lead, fill, low) ==
    LET n == CASE tag = 0 -> 1 [] tag = 1 -> 2 [] tag = 2 -> 4 [] tag = 3 -> 8
        body == [k \in 1..n |-> IF k = 1 THEN lead
                                ELSE IF k = n THEN low ELSE fill]
    IN  [bytes |-> [body EXCEPT ![1] = tag * 64 + lead],
         frame |-> Frame(ZeroExtend(body), "peer")]

RawFrames ==
    {RawFrame(tag, lead, fill, low) :
        tag \in 0..3, lead \in {0, 63}, fill \in {0, 255}, low \in {0, 255}}

\* the inputs of SpecStream: one id of each encoded size and one too large
StreamIds == {Small(42), Below(7), At(7, 0), At(5, 0), At(1, 0)}

StreamFrames == {RawFrame(1, 0, 0, 0), RawFrame(3, 63, 255, 255)}

\* the writer's buffer and the reader's buffer are both empty
Fresh == wire = <<>> /\ buf = <<>> /\ pending = <<>>

\* fewer than MaxFrames frames are on their way to the reader
Room == Len(pending) < MaxFrames

Init ==
    /\ id = Zero64
    /\ ty = CONTROL
    /\ wire = <<>>
    /\ buf = <<>>
    /\ pending = <<>>
    /\ out = NoOut

\* StreamType::CONTROL, PUSH, ENCODER, DECODER
Const ==
    /\ \E c \in StreamTypeConstants :
          /\ ty' = c
          /\ out' = Out("const", "", c, "")
    /\ UNCHANGED <<id, wire, buf, pending>>

\* ty.encode(&mut wire)
EncodeType(room) ==
    /\ room
    /\ LET r == StreamType_encode(ty, wire)
       IN  /\ wire' = r.buf
           /\ pending' = IF r.ok THEN Append(pending, Frame(ty, "StreamType"))
                         ELSE pending
           /\ out' = Out("encode", IF r.ok THEN "Ok" ELSE "panic", ty, "")
    /\ UNCHANGED <<id, ty, buf>>

\* StreamId::from(r).encode(&mut wire)
EncodeId(room, ids) ==
    /\ room
    /\ \E r \in ids :
          LET self == From(r)
              e == StreamId_encode(self, wire)
          IN  /\ wire' = e.buf
              /\ pending' = IF e.ok THEN Append(pending, Frame(self, "StreamId"))
                            ELSE pending
              /\ out' = Out("encode_id", IF e.ok THEN "Ok" ELSE "panic", self, "")
    /\ UNCHANGED <<id, ty, buf>>

\* a frame written by the peer enters the transport
Arrive(room, frames) ==
    /\ room
    /\ \E f \in frames :
          /\ wire' = wire \o f.bytes
          /\ pending' = Append(pending, f.frame)
          /\ out' = Out("arrive", "", f.frame.val, "")
    /\ UNCHANGED <<id, ty, buf>>

\* the transport hands the reader one more byte
Deliver ==
    /\ wire # <<>>
    /\ buf' = Append(buf, Head(wire))
    /\ wire' = Tail(wire)
    /\ out' = Out("deliver", "", Zero64, "")
    /\ UNCHANGED <<id, ty, pending>>

\* StreamType::decode(&mut buf)
Decode ==
    /\ LET r == StreamType_decode(buf)
       IN  /\ buf' = r.rest
           /\ ty' = IF r.ok THEN r.val ELSE ty
           /\ pending' = IF r.ok /\ pending # <<>> THEN Tail(pending) ELSE pending
           /\ out' = [Out("decode", IF r.ok THEN "Ok" ELSE "UnexpectedEnd", r.val, "")
                        EXCEPT !.of = IF r.ok /\ pending # <<>> THEN Head(pending)
                                      ELSE NoFrame]
    /\ UNCHANGED <<id, wire>>

\* StreamId::from(buf.get_var()?)
ReadId ==
    /\ LET r == get_var(buf)
       IN  /\ buf' = r.rest
           /\ pending' = IF r.ok /\ pending # <<>> THEN Tail(pending) ELSE pending
           /\ out' = [Out("read_id", IF r.ok THEN "Ok" ELSE "UnexpectedEnd",
                          From(r.val), "")
                        EXCEPT !.of = IF r.ok /\ pending # <<>> THEN Head(pending)
                                      ELSE NoFrame]
    /\ UNCHANGED <<id, ty, wire>>

\* format!("{}", ty)
DisplayType ==
    /\ out' = Out("fmt_type", "", ty, StreamType_fmt(ty))
    /\ UNCHANGED <<id, ty, wire, buf, pending>>

\* Spec: one frame at a time, written into empty buffers, over every sampled value
Next ==
    \/ Const
    \/ EncodeType(Fresh)
    \/ EncodeId(Fresh, U64Samples)
    \/ Arrive(Fresh, RawFrames)
    \/ Deliver
    \/ Decode
    \/ ReadId
    \/ DisplayType

Spec == Init /\ [][Next]_vars

\* SpecStream: up to MaxFrames frames queued one behind the other
NextStream ==
    \/ Const
    \/ EncodeType(Room)
    \/ EncodeId(Room, StreamIds)
    \/ Arrive(Room, StreamFrames)
    \/ Deliver
    \/ Decode

SpecStream == Init /\ [][NextStream]_vars

(***************************************************************************)
(* Properties of StreamId, checked under SpecId.                           *)
(***************************************************************************)
Low2(v) == v[8] % 4

\* q is v >> 2, said without the shift: q < 2^62 and 4 * q + (v mod 4) = v
IsQuarter(q, v) == q[1] < 64 /\ OrLow(Shl2(q), Low2(v)) = v

\* C2: index() returns r >> 2; is_request() holds exactly when r & 0x3 = 0;
\* is_push() holds exactly when r & 0x3 = 0x3.
C2_BitDerivation ==
    /\ out.op = "index" => IsQuarter(out.val, id)
    /\ out.op = "is_request" => (out.res = "true" <=> Low2(id) = 0)
    /\ out.op = "is_push" => (out.res = "true" <=> Low2(id) = 3)

C2_Witness ==
    \/ out.op = "index" /\ id = Top(0) /\ out.val = Below(1)
    \/ out.op = "is_push" /\ id = Top(0) /\ out.res = "true"

\* (x1, y1, z1) < (x2, y2, z2) lexicographically, z being a u64
LexLt(x1, y1, z1, x2, y2, z2) ==
    \/ x1 < x2
    \/ x1 = x2 /\ y1 < y2
    \/ x1 = x2 /\ y1 = y2 /\ U64Lt(z1, z2)

\* (z1, y1, x1) < (z2, y2, x2) lexicographically, z being a u64
LexLtIndexFirst(z1, y1, x1, z2, y2, x2) ==
    \/ U64Lt(z1, z2)
    \/ z1 = z2 /\ y1 < y2
    \/ z1 = z2 /\ y1 = y2 /\ x1 < x2

\* C5 as stated: a < b exactly when (initiator(a), direction(a), index(a)) is
\* lexicographically smaller than (initiator(b), direction(b), index(b)).
C5_OrderInitiatorFirst ==
    out.op = "lt" =>
        (out.res = "true" <=>
            LexLt(SideValue(initiator(id)), DirValue(dir(id)), index(id),
                  SideValue(initiator(out.val)), DirValue(dir(out.val)),
                  index(out.val)))

\* C5 amended: a < b exactly when (index(a), direction(a), initiator(a)) is
\* lexicographically smaller than (index(b), direction(b), initiator(b)): the
\* numeric order of the raw value orders first by index, then by
\* directionality, then by initiator.
C5_OrderIndexFirst ==
    out.op = "lt" =>
        (out.res = "true" <=>
            LexLtIndexFirst(index(id), DirValue(dir(id)), SideValue(initiator(id)),
                            index(out.val), DirValue(dir(out.val)),
                            SideValue(initiator(out.val))))

\* StreamId(1) < StreamId(4): server before client, index 0 before index 1
C5_Witness ==
    out.op = "lt" /\ id = Small(1) /\ out.val = Small(4) /\ out.res = "true"

\* ds is the decimal numeral of v: digits, no leading zero, denoting v
IsNumeral(ds, v) ==
    /\ Len(ds) >= 1
    /\ \A k \in 1..Len(ds) : ds[k] \in 0..9
    /\ Len(ds) > 1 => ds[1] # 0
    /\ FromDigits(ds) = v

\* C7: StreamId(r) renders as "<client|server> <uni|bi>directional stream <index>",
\* client when bit 0 is clear, bi when bit 1 is clear, the index r >> 2 in decimal.
C7_DisplayId ==
    out.op = "fmt" =>
        LET shown == Decimal(Shr2(id))
        IN  /\ IsNumeral(shown, Shr2(id))
            /\ IsQuarter(Shr2(id), id)
            /\ out.text = (IF id[8] % 2 = 0 THEN "client" ELSE "server") \o " "
                          \o (IF (id[8] \div 2) % 2 = 0 THEN "bi" ELSE "uni")
                          \o "directional stream " \o DigitString(shown)
            /\ id = Small(0) => out.text = "client bidirectional stream 0"
            /\ id = Small(1) => out.text = "server bidirectional stream 0"
            /\ id = Small(2) => out.text = "client unidirectional stream 0"
            /\ id = Small(7) => out.text = "server unidirectional stream 1"

C7_Witness ==
    /\ out.op = "fmt"
    /\ id = Top(0)
    /\ out.text = "server unidirectional stream 4611686018427387903"

\* C10: r = (index << 2) | (2 if unidirectional) | (1 if server), so ids with equal
\* (initiator, direction, index) are equal; every id is in exactly one of the four
\* (initiator, direction) classes; is_request and is_push are never both true.
C10_Decomposition ==
    out.op = "classify" =>
        LET side == out.res[1]
            d == out.res[2]
        IN  /\ OrLow(Shl2(out.val),
                     (IF d = "Uni" THEN 2 ELSE 0) + (IF side = "Server" THEN 1 ELSE 0)) = id
            /\ \A b \in U64Samples :
                  (initiator(b) = side /\ dir(b) = d /\ index(b) = out.val) => b = id
            /\ Cardinality({c \in {"Client", "Server"} \X {"Bi", "Uni"} :
                               c = <<side, d>>}) = 1
            /\ ~(out.res[3] /\ out.res[4])

C10_Witness ==
    /\ out.op = "classify"
    /\ id = Top(1)
    /\ out.res = <<"Client", "Uni", FALSE, FALSE>>
    /\ out.val = Below(1)

(***************************************************************************)
(* Properties of the codec, checked under Spec and SpecStream.             *)
(***************************************************************************)
\* b holds fewer bytes than the prefix of its first byte demands
Truncated(b) == b = <<>> \/ Len(b) < PrefixLen(b[1])

IsPrefix(a, b) == Len(a) <= Len(b) /\ SubSeq(b, 1, Len(a)) = a

\* C1: for every v <= 2^62 - 1, StreamType(v) encoded into an empty buffer decodes
\* to an equal StreamType, and StreamId(v) encoded and read back as a varint wraps
\* to an equal StreamId; the four named constants decode to themselves.
C1_RoundTrip ==
    /\ (out.op \in {"encode", "encode_id"} /\ out.val[1] < 64) => out.res = "Ok"
    /\ (out.op = "decode" /\ out.res = "Ok" /\ out.of.by = "StreamType") =>
          ty = out.of.val
    /\ (out.op = "read_id" /\ out.res = "Ok" /\ out.of.by = "StreamId") =>
          out.val = out.of.val
    /\ (out.op \in {"decode", "read_id"} /\ pending # <<>> /\ wire = <<>>) =>
          out.res = "Ok"
    /\ (out.op \in {"decode", "read_id"} /\ out.res = "Ok") => out.of # NoFrame

C1_Witness ==
    /\ out.op = "decode"
    /\ out.res = "Ok"
    /\ out.of = Frame(Below(1), "StreamType")
    /\ ty = Below(1)

\* C3: StreamType::decode on a buffer with fewer bytes than the prefix of its first
\* byte demands (an empty buffer included) returns UnexpectedEnd and leaves the
\* buffer's read position where it was.
C3_TruncatedDecode ==
    [][out'.op = "decode" =>
          /\ Truncated(buf) => (out'.res = "UnexpectedEnd" /\ buf' = buf)
          /\ out'.res = "UnexpectedEnd" => buf' = buf]_vars

C3_Witness ==
    /\ out.op = "decode"
    /\ out.res = "UnexpectedEnd"
    /\ Len(buf) = 7
    /\ PrefixLen(buf[1]) = 8

\* C4: no operation of the two types panics; StreamId::encode of a raw value above
\* 2^62 - 1 returns a range error to its caller.
C4_NoPanic ==
    /\ out.res # "panic"
    /\ (out.op = "encode_id" /\ out.val[1] >= 64) => out.res = "RangeError"

\* C6: a StreamType renders as "Control" for 0, "Encoder" for 2, "Decoder" for 3 and
\* "StreamType(<decimal value>)" for every other value, PUSH (1) and 42 included.
C6_DisplayType ==
    out.op = "fmt_type" =>
        LET shown == Decimal(out.val)
        IN  /\ out.val = ty
            /\ out.val = Small(0) => out.text = "Control"
            /\ out.val = Small(2) => out.text = "Encoder"
            /\ out.val = Small(3) => out.text = "Decoder"
            /\ out.val \notin {Small(0), Small(2), Small(3)} =>
                  /\ IsNumeral(shown, out.val)
                  /\ out.text = "StreamType(" \o DigitString(shown) \o ")"
            /\ out.val = Small(1) => out.text = "StreamType(1)"
            /\ out.val = Small(42) => out.text = "StreamType(42)"

C6_Witness ==
    \/ out.op = "fmt_type" /\ ty = Small(42) /\ out.text = "StreamType(42)"
    \/ out.op = "fmt_type" /\ ty = PUSH /\ out.text = "StreamType(1)"

\* C8: every StreamType that exists holds a value of at most 2^62 - 1; decode fails
\* only with UnexpectedEnd, and only on a truncated buffer; encode of an existing
\* StreamType does not fail.
C8_TypeInRange ==
    /\ ty[1] < 64
    /\ out.op = "encode" => out.res = "Ok"
    /\ out.op = "decode" => out.res \in {"Ok", "UnexpectedEnd"}
    /\ (out.op = "decode" /\ out.res = "UnexpectedEnd") => Truncated(buf)

\* the largest value, decoded from a peer's frame and encoded again
C8_Witness ==
    /\ out.op = "encode"
    /\ out.res = "Ok"
    /\ out.val = Below(1)
    /\ ty = Below(1)

\* C9: a successful decode consumes exactly the one varint at the front of the
\* buffer; encode only appends; values written one behind the other are decoded in
\* the order written, after the last the buffers are empty, and one more decode
\* fails with UnexpectedEnd.
C9_Stream ==
    /\ [][(out'.op = "decode" /\ out'.res = "Ok") =>
             /\ buf # <<>>
             /\ buf' = SubSeq(buf, PrefixLen(buf[1]) + 1, Len(buf))
             /\ wire' = wire
             /\ pending # <<>>
             /\ ty' = Head(pending).val]_vars
    /\ [][out'.op \in {"encode", "encode_id"} =>
             /\ buf' = buf
             /\ IsPrefix(wire, wire')]_vars
    /\ [][(out'.op = "decode" /\ pending = <<>>) =>
             out'.res = "UnexpectedEnd"]_vars
    /\ [](pending = <<>> => (wire = <<>> /\ buf = <<>>))

\* the first of two queued values decoded, bytes of the second still in the buffer
C9_Witness ==
    /\ out.op = "decode"
    /\ out.res = "Ok"
    /\ out.of = Frame(At(5, 0), "StreamId")
    /\ Len(pending) = 1
    /\ buf # <<>>

====
